---- MODULE Spec2Model ----
(***************************************************************************)
(* A model of the ArbOS fragment of execution-specs:                       *)
(*   - ethereum/arbos/transactions.py: the transaction envelope codec      *)
(*     (encode_transaction / decode_transaction) over the ten variants;    *)
(*   - ethereum/arbos/vm/precompiled_contracts/arb_sys.py: ArbSys;         *)
(*   - ethereum/arbos/vm/precompiled_contracts/arb_retryable_tx.py:        *)
(*     ArbRetryableTx.                                                     *)
(* Three specifications share the variables: SpecCodec, SpecSys and        *)
(* SpecRetry; each leaves the other parts' variables alone.                *)
(***************************************************************************)
EXTENDS Integers, Sequences, FiniteSets, TLC

VARIABLES
    pc,          \* codec: "tx" | "encoded" | "decoded" | "failed" |
                 \*        "received" | "decoded_received" | "idle"
    tx,          \* codec: the typed transaction handed to encode_transaction
    wire,        \* codec: what a block carries: Bytes or a LegacyTransaction
    decoded,     \* codec: the outcome of decode_transaction
    rlp_calls,   \* codec: the calls made to the rlp module, in order
    number,      \* ArbSys: evm.env.number
    sys_ret,     \* ArbSys: the outcome of the last precompile call
    tickets,     \* ArbRetryableTx: the retryable store reached through evm
    caller,      \* ArbRetryableTx: the address calling the precompile
    current_retry, \* ArbRetryableTx: the ticket the executing tx retries
    finalized,   \* ArbRetryableTx: tickets on which redeem/cancel returned
    retry_ret    \* ArbRetryableTx: the outcome of the last precompile call

vars == <<pc, tx, wire, decoded, rlp_calls, number, sys_ret, tickets, caller,
          current_retry, finalized, retry_ret>>

codec_vars == <<pc, tx, wire, decoded, rlp_calls>>
sys_vars == <<number, sys_ret>>
retry_vars == <<tickets, caller, current_retry, finalized, retry_ret>>

----------------------------------------------------------------------------
(* Values.  A Python object is a record [cls, val]: cls is its runtime     *)
(* class as isinstance sees it, val its content.  A field value is         *)
(* [cls |-> "int" | "bytes" | "tuple", val |-> ...].                       *)

Byte == 0 .. 255

Int_(n) == [cls |-> "int", val |-> n]
Bytes_(b) == [cls |-> "bytes", val |-> b]
Tuple_(s) == [cls |-> "tuple", val |-> s]

\* The Bytes object a block carries for a typed transaction.
Bytes(b) == [cls |-> "Bytes", val |-> b]

None == [cls |-> "None", val |-> <<>>]

Fill(n, b) == [i \in 1 .. n |-> b]

\* Address = Bytes20, Bytes32 and VersionedHash = Bytes32 values.
ADDRESS_LENGTH == 20
HASH_LENGTH == 32
Address(k) == Bytes_(Fill(ADDRESS_LENGTH, k))
Bytes32(k) == Bytes_(Fill(HASH_LENGTH, k))
Bytes0 == Bytes_(<<>>)

----------------------------------------------------------------------------
(* The transaction classes and the declared type of each field, in         *)
(* declaration order.                                                      *)

LegacyTransaction == "LegacyTransaction"
AccessListTransaction == "AccessListTransaction"
FeeMarketTransaction == "FeeMarketTransaction"
BlobTransaction == "BlobTransaction"
ArbitrumUnsignedTransaction == "ArbitrumUnsignedTransaction"
ArbitrumContractTransaction == "ArbitrumContractTransaction"
ArbitrumRetryTransaction == "ArbitrumRetryTransaction"
ArbitrumSubmitRetryTransaction == "ArbitrumSubmitRetryTransaction"
ArbitrumDepositTransaction == "ArbitrumDepositTransaction"
ArbitrumInternalTransaction == "ArbitrumInternalTransaction"

Transaction ==
    { LegacyTransaction, AccessListTransaction, FeeMarketTransaction,
      BlobTransaction, ArbitrumUnsignedTransaction,
      ArbitrumContractTransaction, ArbitrumRetryTransaction,
      ArbitrumSubmitRetryTransaction, ArbitrumDepositTransaction,
      ArbitrumInternalTransaction }

Fields(cls) ==
    CASE cls = LegacyTransaction ->
           <<"U256", "Uint", "Uint", "Bytes0|Address", "U256", "Bytes",
             "U256", "U256", "U256">>
      [] cls = AccessListTransaction ->
           <<"U64", "U256", "Uint", "Uint", "Bytes0|Address", "U256",
             "Bytes", "AccessList", "U256", "U256", "U256">>
      [] cls = FeeMarketTransaction ->
           <<"U64", "U256", "Uint", "Uint", "Uint", "Bytes0|Address",
             "U256", "Bytes", "AccessList", "U256", "U256", "U256">>
      [] cls = BlobTransaction ->
           <<"U64", "U256", "Uint", "Uint", "Uint", "Address", "U256",
             "Bytes", "AccessList", "U256", "VersionedHashes", "U256",
             "U256", "U256">>
      [] cls = ArbitrumUnsignedTransaction ->
           <<"U64", "Address", "U256", "U256", "Uint", "Address", "U256",
             "Bytes">>
      [] cls = ArbitrumContractTransaction ->
           <<"U64", "Bytes", "Address", "U256", "Uint", "Address", "U256",
             "Bytes">>
      [] cls = ArbitrumRetryTransaction ->
           <<"U64", "U256", "Address", "U256", "Uint", "Address", "U256",
             "Bytes", "U256", "Address", "U256", "U256">>
      [] cls = ArbitrumSubmitRetryTransaction ->
           <<"U64", "Bytes", "Address", "U256", "U256", "U256", "Uint",
             "Address", "U256", "Address", "U256", "Address", "Bytes">>
      [] cls = ArbitrumDepositTransaction ->
           <<"U64", "Bytes", "Address", "Address", "U256">>
      [] cls = ArbitrumInternalTransaction ->
           <<"U64", "Bytes">>

----------------------------------------------------------------------------
(* The rlp module (ethereum/rlp.py), which transactions.py imports: the    *)
(* canonical recursive-length-prefix encoding of bytes, unsigned integers  *)
(* and sequences, and the type-directed decoder decode_to.                 *)

RLPDecodingError == [cls |-> "RLPDecodingError", val |-> <<>>]
IsErr(v) == v.cls = "RLPDecodingError"

RECURSIVE to_be_bytes(_)
to_be_bytes(n) ==
    IF n = 0 THEN <<>> ELSE to_be_bytes(n \div 256) \o <<n % 256>>

RECURSIVE from_be_bytes(_)
from_be_bytes(b) ==
    IF Len(b) = 0 THEN 0
    ELSE 256 * from_be_bytes(SubSeq(b, 1, Len(b) - 1)) + b[Len(b)]

RECURSIVE Concat(_)
Concat(ss) == IF Len(ss) = 0 THEN <<>> ELSE Head(ss) \o Concat(Tail(ss))

encode_bytes(raw_bytes) ==
    LET len_raw_data == Len(raw_bytes) IN
    IF len_raw_data = 1 /\ raw_bytes[1] < 128 THEN raw_bytes
    ELSE IF len_raw_data < 56 THEN <<128 + len_raw_data>> \o raw_bytes
    ELSE LET len_raw_data_as_be == to_be_bytes(len_raw_data) IN
         <<183 + Len(len_raw_data_as_be)>> \o len_raw_data_as_be \o raw_bytes

encode_joined(joined_encodings) ==
    LET len_joined_encodings == Len(joined_encodings) IN
    IF len_joined_encodings < 56
    THEN <<192 + len_joined_encodings>> \o joined_encodings
    ELSE LET len_joined_encodings_as_be == to_be_bytes(len_joined_encodings) IN
         <<247 + Len(len_joined_encodings_as_be)>>
             \o len_joined_encodings_as_be \o joined_encodings

\* rlp.encode: dispatches on the runtime class of the value; a dataclass
\* (a transaction) is encoded as the sequence of its fields.
RECURSIVE rlp_encode(_)
rlp_encode(raw_data) ==
    IF raw_data.cls = "int" THEN encode_bytes(to_be_bytes(raw_data.val))
    ELSE IF raw_data.cls = "bytes" THEN encode_bytes(raw_data.val)
    ELSE encode_joined(
             Concat([i \in 1 .. Len(raw_data.val) |->
                        rlp_encode(raw_data.val[i])]))

\* The number of bytes the first item of encoded_data takes; -1: the error.
decode_item_length(encoded_data) ==
    IF Len(encoded_data) = 0 THEN -1
    ELSE LET first_rlp_byte == encoded_data[1] IN
         IF first_rlp_byte < 128 THEN 1
         ELSE IF first_rlp_byte <= 183 THEN 1 + (first_rlp_byte - 128)
         ELSE IF first_rlp_byte <= 191 THEN
             LET length_length == first_rlp_byte - 183 IN
             IF ~(length_length < Len(encoded_data)) THEN -1
             ELSE IF encoded_data[2] = 0 THEN -1
             ELSE 1 + length_length
                    + from_be_bytes(SubSeq(encoded_data, 2, 1 + length_length))
         ELSE IF first_rlp_byte <= 247 THEN 1 + (first_rlp_byte - 192)
         ELSE
             LET length_length == first_rlp_byte - 247 IN
             IF ~(length_length < Len(encoded_data)) THEN -1
             ELSE IF encoded_data[2] = 0 THEN -1
             ELSE 1 + length_length
                    + from_be_bytes(SubSeq(encoded_data, 2, 1 + length_length))

\* The payload of a byte-string or sequence item whose short form starts at
\* `short` (0x80 or 0xC0) and long form at `long` (0xB7 or 0xF7).
decode_payload(encoded, short, long) ==
    IF encoded[1] <= long THEN
        LET len_raw_data == encoded[1] - short IN
        IF ~(len_raw_data < Len(encoded)) THEN RLPDecodingError
        ELSE LET raw_data == SubSeq(encoded, 2, 1 + len_raw_data) IN
             IF short = 128 /\ len_raw_data = 1 /\ raw_data[1] < 128
             THEN RLPDecodingError
             ELSE Bytes_(raw_data)
    ELSE
        LET start_idx == 1 + encoded[1] - long IN
        IF ~(start_idx - 1 < Len(encoded)) THEN RLPDecodingError
        ELSE IF encoded[2] = 0 THEN RLPDecodingError
        ELSE LET len_decoded == from_be_bytes(SubSeq(encoded, 2, start_idx))
                 end_idx == start_idx + len_decoded
             IN  IF len_decoded < 56 THEN RLPDecodingError
                 ELSE IF ~(end_idx - 1 < Len(encoded)) THEN RLPDecodingError
                 ELSE Bytes_(SubSeq(encoded, start_idx + 1, end_idx))

\* rlp.decode: bytes to the raw form, a byte string or a list of raw forms.
RECURSIVE rlp_decode(_)
RECURSIVE decode_joined_encodings(_)
rlp_decode(encoded_data) ==
    IF Len(encoded_data) = 0 THEN RLPDecodingError
    ELSE IF encoded_data[1] <= 191 THEN
        IF Len(encoded_data) = 1 /\ encoded_data[1] < 128
        THEN Bytes_(encoded_data)
        ELSE decode_payload(encoded_data, 128, 183)
    ELSE
        LET joined == decode_payload(encoded_data, 192, 247) IN
        IF IsErr(joined) THEN RLPDecodingError
        ELSE decode_joined_encodings(joined.val)

decode_joined_encodings(joined_encodings) ==
    IF Len(joined_encodings) = 0 THEN [cls |-> "list", val |-> <<>>]
    ELSE LET encoded_item_length == decode_item_length(joined_encodings) IN
         IF encoded_item_length < 0
            \/ ~(encoded_item_length - 1 < Len(joined_encodings))
         THEN RLPDecodingError
         ELSE LET item == rlp_decode(SubSeq(joined_encodings, 1,
                                            encoded_item_length))
                  rest == decode_joined_encodings(
                              SubSeq(joined_encodings, encoded_item_length + 1,
                                     Len(joined_encodings)))
              IN  IF IsErr(item) \/ IsErr(rest) THEN RLPDecodingError
                  ELSE [cls |-> "list", val |-> <<item>> \o rest.val]

\* rlp._decode_to: the raw form converted to the declared type.
RECURSIVE _decode_to(_, _)
decode_each(types, raw_items) ==
    LET args == [i \in 1 .. Len(raw_items) |->
                    _decode_to(types[i], raw_items[i])]
    IN  IF \E i \in 1 .. Len(args) : IsErr(args[i]) THEN RLPDecodingError
        ELSE Tuple_(args)

_decode_to(type, raw_rlp) ==
    CASE type \in {"Uint", "U64", "U256"} ->
           IF raw_rlp.cls # "bytes" THEN RLPDecodingError
           ELSE IF type = "U64" /\ Len(raw_rlp.val) > 8 THEN RLPDecodingError
           ELSE IF type = "U256" /\ Len(raw_rlp.val) > 32 THEN RLPDecodingError
           ELSE Int_(from_be_bytes(raw_rlp.val))
      [] type = "Bytes" ->
           IF raw_rlp.cls # "bytes" THEN RLPDecodingError ELSE raw_rlp
      [] type = "Address" ->
           IF raw_rlp.cls # "bytes" \/ Len(raw_rlp.val) # ADDRESS_LENGTH
           THEN RLPDecodingError ELSE raw_rlp
      [] type = "Bytes32" ->
           IF raw_rlp.cls # "bytes" \/ Len(raw_rlp.val) # HASH_LENGTH
           THEN RLPDecodingError ELSE raw_rlp
      [] type = "Bytes0|Address" ->
           IF raw_rlp.cls # "bytes"
              \/ Len(raw_rlp.val) \notin {0, ADDRESS_LENGTH}
           THEN RLPDecodingError ELSE raw_rlp
      [] type \in {"AccessList", "StorageKeys", "VersionedHashes"} ->
           IF raw_rlp.cls # "list" THEN RLPDecodingError
           ELSE decode_each(
                    [i \in 1 .. Len(raw_rlp.val) |->
                        IF type = "AccessList" THEN "AccessListEntry"
                        ELSE "Bytes32"],
                    raw_rlp.val)
      [] type = "AccessListEntry" ->
           IF raw_rlp.cls # "list" \/ Len(raw_rlp.val) # 2
           THEN RLPDecodingError
           ELSE decode_each(<<"Address", "StorageKeys">>, raw_rlp.val)
      [] type \in Transaction ->
           IF raw_rlp.cls # "list" \/ Len(raw_rlp.val) # Len(Fields(type))
           THEN RLPDecodingError
           ELSE LET args == decode_each(Fields(type), raw_rlp.val) IN
                IF IsErr(args) THEN RLPDecodingError
                ELSE [cls |-> type, val |-> args.val]

rlp_decode_to(cls, encoded_rlp) ==
    LET raw_rlp == rlp_decode(encoded_rlp) IN
    IF IsErr(raw_rlp) THEN RLPDecodingError ELSE _decode_to(cls, raw_rlp)

----------------------------------------------------------------------------
(* transactions.py: encode_transaction and decode_transaction.  Each       *)
(* returns its outcome with the calls it made to the rlp module.           *)

Return(v, calls) == [kind |-> "return", val |-> v, calls |-> calls]
Raise(e, calls) == [kind |-> e, val |-> None, calls |-> calls]

\* b"<prefix>" + rlp.encode(tx)
Enveloped(prefix, t) ==
    Return(Bytes(<<prefix>> \o rlp_encode(t)),
           <<[fn |-> "encode", cls |-> t.cls, arg |-> t]>>)

\* encode_transaction with the retry variant under the unassigned 0x67.
encode_transaction_retry_0x67(t) ==
    IF t.cls = LegacyTransaction THEN Return(t, <<>>)
    ELSE IF t.cls = AccessListTransaction THEN Enveloped(1, t)
    ELSE IF t.cls = FeeMarketTransaction THEN Enveloped(2, t)
    ELSE IF t.cls = BlobTransaction THEN Enveloped(3, t)
    ELSE IF t.cls = ArbitrumDepositTransaction THEN Enveloped(100, t)
    ELSE IF t.cls = ArbitrumUnsignedTransaction THEN Enveloped(101, t)
    ELSE IF t.cls = ArbitrumContractTransaction THEN Enveloped(102, t)
    ELSE IF t.cls = ArbitrumRetryTransaction THEN Enveloped(103, t)
    ELSE IF t.cls = ArbitrumSubmitRetryTransaction THEN Enveloped(105, t)
    ELSE IF t.cls = ArbitrumInternalTransaction THEN Enveloped(106, t)
    ELSE Raise("Exception", <<>>)

\* encode_transaction with the legacy variant enveloped like the others.
encode_transaction_legacy_enveloped(t) ==
    IF t.cls = LegacyTransaction THEN Enveloped(0, t)
    ELSE IF t.cls = AccessListTransaction THEN Enveloped(1, t)
    ELSE IF t.cls = FeeMarketTransaction THEN Enveloped(2, t)
    ELSE IF t.cls = BlobTransaction THEN Enveloped(3, t)
    ELSE IF t.cls = ArbitrumDepositTransaction THEN Enveloped(100, t)
    ELSE IF t.cls = ArbitrumUnsignedTransaction THEN Enveloped(101, t)
    ELSE IF t.cls = ArbitrumContractTransaction THEN Enveloped(102, t)
    ELSE IF t.cls = ArbitrumRetryTransaction THEN Enveloped(104, t)
    ELSE IF t.cls = ArbitrumSubmitRetryTransaction THEN Enveloped(105, t)
    ELSE IF t.cls = ArbitrumInternalTransaction THEN Enveloped(106, t)
    ELSE Raise("Exception", <<>>)

encode_transaction(t) ==
    IF t.cls = LegacyTransaction THEN Return(t, <<>>)
    ELSE IF t.cls = AccessListTransaction THEN Enveloped(1, t)
    ELSE IF t.cls = FeeMarketTransaction THEN Enveloped(2, t)
    ELSE IF t.cls = BlobTransaction THEN Enveloped(3, t)
    ELSE IF t.cls = ArbitrumDepositTransaction THEN Enveloped(100, t)
    ELSE IF t.cls = ArbitrumUnsignedTransaction THEN Enveloped(101, t)
    ELSE IF t.cls = ArbitrumContractTransaction THEN Enveloped(102, t)
    ELSE IF t.cls = ArbitrumRetryTransaction THEN Enveloped(104, t)
    ELSE IF t.cls = ArbitrumSubmitRetryTransaction THEN Enveloped(105, t)
    ELSE IF t.cls = ArbitrumInternalTransaction THEN Enveloped(106, t)
    ELSE Raise("Exception", <<>>)

\* The dispatch handing the decoder the whole of tx, prefix byte included.
Dispatch_whole(cls, t) ==
    LET calls == <<[fn |-> "decode_to", cls |-> cls, arg |-> Bytes(t.val)]>>
        got == rlp_decode_to(cls, t.val)
    IN  IF IsErr(got) THEN Raise("RLPDecodingError", calls)
        ELSE Return(got, calls)

\* rlp.decode_to(cls, tx[1:])
Dispatch(cls, t) ==
    LET rest == SubSeq(t.val, 2, Len(t.val))
        calls == <<[fn |-> "decode_to", cls |-> cls, arg |-> Bytes(rest)]>>
        got == rlp_decode_to(cls, rest)
    IN  IF IsErr(got) THEN Raise("RLPDecodingError", calls)
        ELSE Return(got, calls)

decode_transaction(t) ==
    IF t.cls = "Bytes" THEN
        \* tx[0] of an empty bytes object raises IndexError
        IF Len(t.val) = 0 THEN Raise("IndexError", <<>>)
        ELSE IF t.val[1] = 1 THEN Dispatch(AccessListTransaction, t)
        ELSE IF t.val[1] = 2 THEN Dispatch(FeeMarketTransaction, t)
        ELSE IF t.val[1] = 3 THEN Dispatch(BlobTransaction, t)
        ELSE IF t.val[1] = 100 THEN Dispatch(ArbitrumDepositTransaction, t)
        ELSE IF t.val[1] = 101 THEN Dispatch(ArbitrumUnsignedTransaction, t)
        ELSE IF t.val[1] = 102 THEN Dispatch(ArbitrumContractTransaction, t)
        ELSE IF t.val[1] = 104 THEN Dispatch(ArbitrumRetryTransaction, t)
        ELSE IF t.val[1] = 105 THEN Dispatch(ArbitrumSubmitRetryTransaction, t)
        ELSE IF t.val[1] = 106 THEN Dispatch(ArbitrumInternalTransaction, t)
        ELSE Raise("InvalidBlock", <<>>)
    ELSE Return(t, <<>>)

----------------------------------------------------------------------------
(* The transactions and byte strings the codec is exercised on.            *)

\* The largest integer field value.
MaxUint == 300
\* The length of the long data field: past RLP's short-string limit of 55.
LongData == 56

UintValues == {0, 128, MaxUint}
DataValues == {<<>>, <<0>>, <<128, 1>>, Fill(LongData, 7)}
RequestIds == {<<>>, <<9>>}
ToValues == {Bytes0, Address(17)}
AccessLists ==
    { Tuple_(<<>>),
      Tuple_(<<Tuple_(<<Address(1), Tuple_(<<>>)>>)>>),
      Tuple_(<<Tuple_(<<Address(1), Tuple_(<<Bytes32(5)>>)>>),
               Tuple_(<<Address(2), Tuple_(<<Bytes32(5), Bytes32(6)>>)>>)>>) }
HashLists == { Tuple_(<<>>), Tuple_(<<Bytes32(1)>>) }

\* A well-formed transaction of class cls: the integer fields alternate
\* between a and b, the address fields are pairwise distinct, a request id
\* (the second field, when it is of type Bytes and others follow) is r and
\* every other Bytes field is d.
MakeTx(cls, a, b, d, r, to, al, hs) ==
    LET types == Fields(cls)
        field(i) ==
            CASE types[i] \in {"Uint", "U64", "U256"} ->
                   Int_(IF i % 2 = 1 THEN a ELSE b)
              [] types[i] = "Bytes" ->
                   Bytes_(IF i = 2 /\ Len(types) > 2 THEN r ELSE d)
              [] types[i] = "Address" -> Address(i)
              [] types[i] = "Bytes0|Address" -> to
              [] types[i] = "AccessList" -> al
              [] types[i] = "VersionedHashes" -> hs
    IN  [cls |-> cls, val |-> [i \in 1 .. Len(types) |-> field(i)]]

Transactions ==
    { MakeTx(cls, a, b, d, r, to, al, hs) :
        cls \in Transaction, a \in UintValues, b \in UintValues,
        d \in DataValues, r \in RequestIds, to \in ToValues,
        al \in AccessLists, hs \in HashLists }

\* What may follow the first byte of a received byte string: nothing, the
\* encoding of a transaction, or bytes that are no RLP list.
SampleTx(cls) ==
    MakeTx(cls, 0, 128, <<>>, <<9>>, Bytes0, Tuple_(<<>>), Tuple_(<<>>))
Payloads ==
    {<<>>, <<128>>, <<192>>, <<193>>}
        \cup { rlp_encode(SampleTx(cls)) :
                 cls \in {ArbitrumInternalTransaction,
                          ArbitrumDepositTransaction} }

ReceivedBytes ==
    {Bytes(<<>>)} \cup { Bytes(<<p>> \o rest) : p \in Byte, rest \in Payloads }

NoTx == [cls |-> "None", val |-> <<>>]
NoResult == [kind |-> "none", val |-> None, calls |-> <<>>]

NoSysCall == [op |-> "none", number |-> 0, n |-> 0, kind |-> "none",
              val |-> None, consulted |-> <<>>]
NoRetryCall == [op |-> "none", ticket_id |-> 0, caller |-> 0, self |-> 0,
                before |-> <<>>, after |-> <<>>, final |-> {},
                kind |-> "none", val |-> None]

SysIdle == /\ number = 0
           /\ sys_ret = NoSysCall
RetryIdle == /\ tickets = <<>>
             /\ caller = 0
             /\ current_retry = 0
             /\ finalized = {}
             /\ retry_ret = NoRetryCall
CodecIdle == /\ pc = "idle"
             /\ tx = NoTx
             /\ wire = NoTx
             /\ decoded = NoResult
             /\ rlp_calls = <<>>

\* Either a typed transaction is about to be encoded into a block, or a
\* block's entry (bytes or a legacy transaction) has been received.
InitCodec ==
    /\ \/ /\ pc = "tx"
          /\ tx \in Transactions
          /\ wire = NoTx
       \/ /\ pc = "received"
          /\ tx = NoTx
          /\ wire \in ReceivedBytes
                        \cup {t \in Transactions : t.cls = LegacyTransaction}
    /\ decoded = NoResult
    /\ rlp_calls = <<>>
    /\ SysIdle
    /\ RetryIdle

EncodeTransaction ==
    /\ pc = "tx"
    /\ LET r == encode_transaction(tx) IN
       /\ wire' = r.val
       /\ rlp_calls' = rlp_calls \o r.calls
       /\ pc' = IF r.kind = "return" THEN "encoded" ELSE "failed"
    /\ UNCHANGED <<tx, decoded, sys_vars, retry_vars>>

DecodeTransaction ==
    /\ pc \in {"encoded", "received"}
    /\ LET r == decode_transaction(wire) IN
       /\ decoded' = r
       /\ rlp_calls' = rlp_calls \o r.calls
    /\ pc' = IF pc = "encoded" THEN "decoded" ELSE "decoded_received"
    /\ UNCHANGED <<tx, wire, sys_vars, retry_vars>>

NextCodec == EncodeTransaction \/ DecodeTransaction

SpecCodec == InitCodec /\ [][NextCodec]_vars

----------------------------------------------------------------------------
(* arb_sys.py: the ArbSys precompile.                                      *)

\* evm.env.block_hash(block_number): the hash the environment holds.
block_hash(block_number) == [cls |-> "Hash32", val |-> block_number]

\* Uint.__sub__ (ethereum/base_types.py) refuses a negative result; the
\* exception class it raises differs between versions of the library.
UintUnderflow == {"ValueError", "OverflowError"}
uint_sub(left, right, underflow) ==
    IF left < right THEN [kind |-> underflow, val |-> 0]
    ELSE [kind |-> "return", val |-> left - right]

SysReturn(v, consulted) ==
    [kind |-> "return", val |-> v, consulted |-> consulted]
SysRaise(e) == [kind |-> e, val |-> None, consulted |-> <<>>]

arb_block_number(env_number) == SysReturn(Int_(env_number), <<>>)

\* The lookback window one block short at its far end.
arb_block_hash_short_window(env_number, block_number, underflow) ==
    LET current_block_number == env_number IN
    IF block_number >= current_block_number THEN SysRaise("ValueError")
    ELSE LET bound == uint_sub(current_block_number, 256, underflow) IN
         IF bound.kind # "return" THEN SysRaise(bound.kind)
         ELSE IF block_number <= bound.val THEN SysRaise("ValueError")
         ELSE SysReturn(block_hash(block_number), <<block_number>>)

\* `or` evaluates its right operand, and with it the subtraction, only
\* when the left one is false.
arb_block_hash(env_number, block_number, underflow) ==
    LET current_block_number == env_number IN
    IF block_number >= current_block_number THEN SysRaise("ValueError")
    ELSE LET bound == uint_sub(current_block_number, 256, underflow) IN
         IF bound.kind # "return" THEN SysRaise(bound.kind)
         ELSE IF block_number < bound.val THEN SysRaise("ValueError")
         ELSE SysReturn(block_hash(block_number), <<block_number>>)

\* The highest block number the chain is run to.
MaxNumber == 1001

\* A precompile call's outcome is kept until the next block begins.
\* The block numbers asked for: around both ends of the window, and the
\* genesis block.
Requested(c) == {0, c - 257, c - 256, c - 255, c - 1, c, c + 1}

SysCall(op, n, r) ==
    [op |-> op, number |-> number, n |-> n, kind |-> r.kind, val |-> r.val,
     consulted |-> r.consulted]

InitSys ==
    /\ number = 0
    /\ sys_ret = NoSysCall
    /\ CodecIdle
    /\ RetryIdle

NewBlock ==
    /\ number < MaxNumber
    /\ number' = number + 1
    /\ sys_ret' = NoSysCall
    /\ UNCHANGED <<codec_vars, retry_vars>>

ArbBlockNumber ==
    /\ sys_ret' = SysCall("arb_block_number", 0, arb_block_number(number))
    /\ UNCHANGED <<number, codec_vars, retry_vars>>

ArbBlockHash ==
    /\ \E n \in Requested(number), underflow \in UintUnderflow :
          sys_ret' = SysCall("arb_block_hash", n,
                             arb_block_hash(number, n, underflow))
    /\ UNCHANGED <<number, codec_vars, retry_vars>>

NextSys == NewBlock \/ ArbBlockNumber \/ ArbBlockHash

SpecSys == InitSys /\ [][NextSys]_vars

----------------------------------------------------------------------------
(* arb_retryable_tx.py: the ArbRetryableTx precompile.  The store of       *)
(* retryable tickets, the caller and the retry being executed are reached  *)
(* through evm.  The body of every function of the file is `pass`: it      *)
(* reads nothing, writes nothing and returns None.                         *)

\* The ticket ids, addresses and expiry times of the model.
MaxTicket == 2
MaxAddress == 2
MaxExpiry == 2

TicketIds == 1 .. MaxTicket
Addresses == 1 .. MaxAddress
NoTicket == 0

Absent == [status |-> "absent", expiry |-> 0, beneficiary |-> 0]
Open(expiry, beneficiary) ==
    [status |-> "open", expiry |-> expiry, beneficiary |-> beneficiary]

\* What a function of the precompile leaves behind: the store and what it
\* returns or raises.
Outcome(store, kind, val) == [store |-> store, kind |-> kind, val |-> val]

redeem(store, msg_caller, retrying, ticket_id) == Outcome(store, "return", None)
get_lifetime(store) == Outcome(store, "return", None)
get_timeout(store, ticket_id) == Outcome(store, "return", None)
keep_alive(store, ticket_id) == Outcome(store, "return", None)
get_beneficiary(store, ticket_id) == Outcome(store, "return", None)
cancel(store, msg_caller, retrying, ticket_id) == Outcome(store, "return", None)

RetryCall(op, ticket_id, r) ==
    [op |-> op, ticket_id |-> ticket_id, caller |-> caller,
     self |-> current_retry, before |-> tickets, after |-> r.store,
     final |-> finalized, kind |-> r.kind, val |-> r.val]

InitRetry ==
    /\ tickets = [t \in TicketIds |-> Absent]
    /\ caller \in Addresses
    /\ current_retry = NoTicket
    /\ finalized = {}
    /\ retry_ret = NoRetryCall
    /\ CodecIdle
    /\ SysIdle

\* An ArbitrumSubmitRetryTransaction is processed: its ticket is Submitted.
SubmitRetryable ==
    /\ \E t \in TicketIds, e \in 1 .. MaxExpiry, b \in Addresses :
          /\ tickets[t] = Absent
          /\ t \notin finalized
          /\ tickets' = [tickets EXCEPT ![t] = Open(e, b)]
    /\ UNCHANGED <<caller, current_retry, finalized, retry_ret, codec_vars,
                   sys_vars>>

\* The next transaction begins: an ordinary one, or the retry of an
\* outstanding ticket, sent by some address.
BeginTransaction ==
    /\ \E a \in Addresses, t \in TicketIds \cup {NoTicket} :
          /\ t # NoTicket => tickets[t].status = "open"
          /\ caller' = a
          /\ current_retry' = t
    /\ retry_ret' = NoRetryCall
    /\ UNCHANGED <<tickets, finalized, codec_vars, sys_vars>>

\* A call of redeem or cancel that returns on an outstanding ticket has
\* finalized it.
Finalize(ticket_id, r) ==
    IF r.kind = "return" /\ tickets[ticket_id].status = "open"
    THEN finalized \cup {ticket_id} ELSE finalized

Redeem ==
    /\ \E t \in TicketIds :
          LET r == redeem(tickets, caller, current_retry, t) IN
          /\ tickets' = r.store
          /\ retry_ret' = RetryCall("redeem", t, r)
          /\ finalized' = Finalize(t, r)
    /\ UNCHANGED <<caller, current_retry, codec_vars, sys_vars>>

GetLifetime ==
    /\ LET r == get_lifetime(tickets) IN
          /\ tickets' = r.store
          /\ retry_ret' = RetryCall("get_lifetime", NoTicket, r)
    /\ UNCHANGED <<caller, current_retry, finalized, codec_vars, sys_vars>>

GetTimeout ==
    /\ \E t \in TicketIds :
          LET r == get_timeout(tickets, t) IN
          /\ tickets' = r.store
          /\ retry_ret' = RetryCall("get_timeout", t, r)
    /\ UNCHANGED <<caller, current_retry, finalized, codec_vars, sys_vars>>

KeepAlive ==
    /\ \E t \in TicketIds :
          LET r == keep_alive(tickets, t) IN
          /\ tickets' = r.store
          /\ retry_ret' = RetryCall("keep_alive", t, r)
    /\ UNCHANGED <<caller, current_retry, finalized, codec_vars, sys_vars>>

GetBeneficiary ==
    /\ \E t \in TicketIds :
          LET r == get_beneficiary(tickets, t) IN
          /\ tickets' = r.store
          /\ retry_ret' = RetryCall("get_beneficiary", t, r)
    /\ UNCHANGED <<caller, current_retry, finalized, codec_vars, sys_vars>>

Cancel ==
    /\ \E t \in TicketIds :
          LET r == cancel(tickets, caller, current_retry, t) IN
          /\ tickets' = r.store
          /\ retry_ret' = RetryCall("cancel", t, r)
          /\ finalized' = Finalize(t, r)
    /\ UNCHANGED <<caller, current_retry, codec_vars, sys_vars>>

NextRetry ==
    \/ SubmitRetryable
    \/ BeginTransaction
    \/ Redeem
    \/ GetLifetime
    \/ GetTimeout
    \/ KeepAlive
    \/ GetBeneficiary
    \/ Cancel

SpecRetry == InitRetry /\ [][NextRetry]_vars

----------------------------------------------------------------------------
(* Properties of the envelope codec, under SpecCodec.                      *)

NonLegacyDecoded == pc = "decoded" /\ tx.cls # LegacyTransaction

\* The first byte encode_transaction writes for a sample of class cls.
PrefixWritten(cls) == encode_transaction(SampleTx(cls)).val.val[1]

\* C1: a non-legacy transaction that is encoded and then decoded comes back
\* as the same variant with the same field values; encode_transaction makes
\* one call of rlp.encode, decode_transaction one call of rlp.decode_to for
\* the transaction's own variant on the bytes after the prefix; and the
\* prefix byte written is written for no other variant.
C1_RoundTrip ==
    NonLegacyDecoded =>
        /\ wire.cls = "Bytes"
        /\ decoded.kind = "return"
        /\ decoded.val.cls = tx.cls
        /\ decoded.val.val = tx.val
        /\ rlp_calls =
              <<[fn |-> "encode", cls |-> tx.cls, arg |-> tx],
                [fn |-> "decode_to", cls |-> tx.cls,
                 arg |-> Bytes(Tail(wire.val))]>>
        /\ \A other \in Transaction \ {LegacyTransaction, tx.cls} :
              PrefixWritten(other) # wire.val[1]

\* An access-list transaction with zero value, zero-length data and an empty
\* access list has made the round trip.
C1_Witness ==
    /\ NonLegacyDecoded
    /\ tx.cls = AccessListTransaction
    /\ tx.val[6] = Int_(0)
    /\ tx.val[7] = Bytes_(<<>>)
    /\ tx.val[8] = Tuple_(<<>>)
    /\ decoded.kind = "return"
    /\ decoded.val.val = tx.val

\* The prefix table of the specification.
PrefixTable ==
    (1 :> AccessListTransaction) @@ (2 :> FeeMarketTransaction)
        @@ (3 :> BlobTransaction) @@ (100 :> ArbitrumDepositTransaction)
        @@ (101 :> ArbitrumUnsignedTransaction)
        @@ (102 :> ArbitrumContractTransaction)
        @@ (104 :> ArbitrumRetryTransaction)
        @@ (105 :> ArbitrumSubmitRetryTransaction)
        @@ (106 :> ArbitrumInternalTransaction)

BytesDecoded ==
    pc \in {"decoded", "decoded_received"} /\ wire.cls = "Bytes"

\* C2: decoding a byte string whose first byte is in the prefix table makes
\* exactly one call of rlp.decode_to, for the variant of that byte and on
\* the bytes after it, and what it returns is of that variant; decoding one
\* whose first byte is any other value raises InvalidBlock, returns nothing
\* and calls no decoder.
C2_PrefixDispatch ==
    (BytesDecoded /\ Len(wire.val) >= 1) =>
        IF wire.val[1] \in DOMAIN PrefixTable
        THEN /\ decoded.calls =
                   <<[fn |-> "decode_to", cls |-> PrefixTable[wire.val[1]],
                      arg |-> Bytes(Tail(wire.val))]>>
             /\ decoded.kind \in {"return", "RLPDecodingError"}
             /\ decoded.kind = "return" =>
                   decoded.val.cls = PrefixTable[wire.val[1]]
        ELSE /\ decoded.kind = "InvalidBlock"
             /\ decoded.val = None
             /\ decoded.calls = <<>>

\* Received bytes starting with 0x6A were decoded as an internal transaction.
C2_Witness ==
    /\ pc = "decoded_received"
    /\ wire.cls = "Bytes"
    /\ Len(wire.val) > 1
    /\ wire.val[1] = 106
    /\ decoded.kind = "return"
    /\ decoded.val = SampleTx(ArbitrumInternalTransaction)

\* C4: encode_transaction returns a legacy transaction as it is, and so does
\* decode_transaction; neither calls the rlp module nor raises.
C4_LegacyIdentity ==
    /\ (pc \in {"encoded", "decoded"} /\ tx.cls = LegacyTransaction) =>
          /\ wire = tx
          /\ rlp_calls = <<>>
    /\ (pc \in {"decoded", "decoded_received"}
            /\ wire.cls = LegacyTransaction) =>
          /\ decoded.kind = "return"
          /\ decoded.val = wire
          /\ decoded.calls = <<>>
          /\ rlp_calls = <<>>
    /\ (pc = "failed") => tx.cls # LegacyTransaction

\* A legacy transaction was encoded and decoded and came back as itself.
C4_Witness ==
    /\ pc = "decoded"
    /\ tx.cls = LegacyTransaction
    /\ wire = tx
    /\ decoded.kind = "return"
    /\ decoded.val = tx

\* C10: whenever decode_transaction fails on a byte string before any RLP
\* decoder is called, the failure is InvalidBlock.
C10_OnlyInvalidBlock ==
    (BytesDecoded /\ decoded.kind # "return" /\ decoded.calls = <<>>) =>
        decoded.kind = "InvalidBlock"

----------------------------------------------------------------------------
(* Properties of ArbSys, under SpecSys.                                    *)

BlockHashCalled == sys_ret.op = "arb_block_hash"

\* C3: at a current block number c >= 256, arb_block_hash(n) returns
\* evm.env.block_hash(n), consulted once for n, when c - 256 <= n < c, and
\* otherwise raises ValueError without consulting evm.env.block_hash.
C3_LookbackWindow ==
    (BlockHashCalled /\ sys_ret.number >= 256) =>
        IF sys_ret.number - 256 <= sys_ret.n /\ sys_ret.n < sys_ret.number
        THEN /\ sys_ret.kind = "return"
             /\ sys_ret.val = block_hash(sys_ret.n)
             /\ sys_ret.consulted = <<sys_ret.n>>
        ELSE /\ sys_ret.kind = "ValueError"
             /\ sys_ret.consulted = <<>>

\* At block 1000 the hash of block 744, the far end of the window, was
\* returned.
C3_Witness ==
    /\ BlockHashCalled
    /\ sys_ret.number = 1000
    /\ sys_ret.n = 744
    /\ sys_ret.kind = "return"
    /\ sys_ret.val = block_hash(744)

\* C9: at a current block number c < 256, arb_block_hash(n) returns
\* evm.env.block_hash(n) for every n with 0 <= n < c.
C9_EarlyChainLookup ==
    (BlockHashCalled /\ sys_ret.number < 256
        /\ 0 <= sys_ret.n /\ sys_ret.n < sys_ret.number) =>
        /\ sys_ret.kind = "return"
        /\ sys_ret.val = block_hash(sys_ret.n)

----------------------------------------------------------------------------
(* Properties of ArbRetryableTx, under SpecRetry.                          *)

Called(ops) == retry_ret.op \in ops
Outstanding == retry_ret.before[retry_ret.ticket_id].status = "open"
SelfRetry == retry_ret.self = retry_ret.ticket_id

\* C5: cancel of an outstanding ticket by a caller other than its
\* beneficiary raises "unauthorized" and leaves the store as it was; by the
\* beneficiary it removes the ticket.
C5_CancelAuthorization ==
    (Called({"cancel"}) /\ Outstanding /\ ~SelfRetry) =>
        IF retry_ret.caller
              # retry_ret.before[retry_ret.ticket_id].beneficiary
        THEN /\ retry_ret.kind = "unauthorized"
             /\ retry_ret.after = retry_ret.before
        ELSE retry_ret.after[retry_ret.ticket_id].status # "open"

\* C6: redeem or cancel of the ticket the executing transaction retries
\* raises "invalid operation" and leaves the store as it was.
C6_SelfReferenceRejected ==
    (Called({"redeem", "cancel"}) /\ SelfRetry) =>
        /\ retry_ret.kind = "invalid operation"
        /\ retry_ret.after = retry_ret.before

\* C7: keep_alive of an outstanding ticket raises its expiry and returns the
\* new expiry; keep_alive of a ticket that does not exist raises "not found"
\* and creates none.
C7_KeepAliveExtends ==
    Called({"keep_alive"}) =>
        IF Outstanding
        THEN /\ retry_ret.after[retry_ret.ticket_id].expiry
                   > retry_ret.before[retry_ret.ticket_id].expiry
             /\ retry_ret.kind = "return"
             /\ retry_ret.val
                   = Int_(retry_ret.after[retry_ret.ticket_id].expiry)
        ELSE /\ retry_ret.kind = "not found"
             /\ retry_ret.after = retry_ret.before

\* C8: once redeem or cancel has returned on a ticket, every later redeem,
\* cancel, keep_alive, get_timeout or get_beneficiary on it raises
\* "not found" and the ticket is not outstanding.
C8_FinalizedIsTerminal ==
    (Called({"redeem", "cancel", "keep_alive", "get_timeout",
             "get_beneficiary"})
        /\ retry_ret.ticket_id \in retry_ret.final) =>
        /\ retry_ret.kind = "not found"
        /\ retry_ret.after[retry_ret.ticket_id].status # "open"

====
